---------------------------- MODULE Spec2Model ----------------------------
(***************************************************************************)
(* Model of src/index.js: the POST /api/render-and-download handler.  One  *)
(* request = validate, allocate a unique output path, run the Remotion     *)
(* CLI through exec, classify the outcome, res.download the file, and      *)
(* fs.unlink it afterwards.  Several requests run interleaved on the one   *)
(* event loop: every action below is one run-to-completion callback of the *)
(* handler (or one step of the environment: the engine writing its file).  *)
(*                                                                         *)
(* Strings are sequences of characters (a "character" may be a longer      *)
(* literal where the code never looks inside it), so that toLowerCase,     *)
(* includes and path.join are computed, not assumed.                       *)
(***************************************************************************)
EXTENDS Naturals, Sequences, FiniteSets

\* ------------------------------------------------------------------ bounds
\* Number of requests in flight together.
NumRequests == 2

Reqs == 1..NumRequests

\* ----------------------------------------------------------------- strings
Lower(c) ==
    CASE c = "E" -> "e"
      [] c = "R" -> "r"
      [] c = "O" -> "o"
      [] OTHER -> c

\* String.prototype.toLowerCase
toLowerCase(s) == [i \in 1..Len(s) |-> Lower(s[i])]

\* String.prototype.includes
includes(s, sub) ==
    \E i \in 1..(Len(s) + 1) :
        /\ i + Len(sub) - 1 <= Len(s)
        /\ SubSeq(s, i, i + Len(sub) - 1) = sub

\* the marker looked for in stderr (line 61)
Marker == <<"e", "r", "r", "o", "r">>

\* ------------------------------------------------------------------- paths
\* outputDir = path.resolve(__dirname, "output"): an absolute path, kept as
\* its segments.
outputDir == << <<"srv">>, <<"output">> >>

\* remotionEntryPoint (lines 18-22)
remotionEntryPoint == <<"/srv/../frontend/src/remotion/index.js">>

\* the segments of s between the "/" separators
RECURSIVE Split(_)
Split(s) ==
    IF s = <<>> THEN << <<>> >>
    ELSE LET rest == Split(Tail(s)) IN
         IF Head(s) = "/" THEN << <<>> >> \o rest
         ELSE << <<Head(s)>> \o Head(rest) >> \o Tail(rest)

\* path.normalize on the segments of an absolute path: empty and "."
\* segments are dropped, ".." drops the segment before it.
RECURSIVE Normalize(_, _)
Normalize(acc, segs) ==
    IF segs = <<>> THEN acc
    ELSE LET s == Head(segs) IN
         IF s = <<>> \/ s = <<".">> THEN Normalize(acc, Tail(segs))
         ELSE IF s = <<".", ".">>
              THEN Normalize(IF acc = <<>> THEN <<>>
                             ELSE SubSeq(acc, 1, Len(acc) - 1), Tail(segs))
              ELSE Normalize(Append(acc, s), Tail(segs))

\* path.join(dir, name)
pathJoin(dir, name) == Normalize(<<>>, dir \o Split(name))

\* uuidv4(): the n-th identifier handed out; no two calls return the same.
uuidNames == <<"uuid1", "uuid2", "uuid3", "uuid4">>
uuidv4(n) == <<uuidNames[n]>>

\* `${uuidv4()}-${compositionId}.mp4` (line 83)
uniqueFilename(uuid, compositionId) == uuid \o <<"-">> \o compositionId \o <<".mp4">>

\* path.join(outputDir, uniqueFilename) (line 84)
outputPathOf(uuid, compositionId) ==
    pathJoin(outputDir, uniqueFilename(uuid, compositionId))

\* the path written back as one string, "/" between the segments
RECURSIVE pathString(_)
pathString(p) ==
    IF p = <<>> THEN <<>> ELSE <<"/">> \o Head(p) \o pathString(Tail(p))

\* ------------------------------------------------------------------ inputs
\* req.body.inputProps: absent (given = FALSE) or an object, kept as the
\* sequence of its <<key, value>> pairs of strings.
NoProps == [given |-> FALSE, pairs |-> <<>>]

PropsValues ==
    { NoProps,
      [given |-> TRUE, pairs |-> << << <<"title">>, <<"Hello">> >> >>],
      [given |-> TRUE, pairs |-> << << <<"title">>, <<"i", "t", "'", "s">> >> >>] }

\* req.body.compositionId: absent (given = FALSE) or a string.
CompositionIds == { <<>>, <<"intro">>, <<"/", ".", ".", "/", "intro">> }

\* the request bodies of the interleaved runs: inputProps absent
Bodies ==
    { [given |-> FALSE, compositionId |-> <<>>, inputProps |-> NoProps] }
    \cup { [given |-> TRUE, compositionId |-> c, inputProps |-> NoProps] :
               c \in CompositionIds }

\* more compositionIds, with path separators and dots in them
PathCompositionIds ==
    CompositionIds
    \cup { <<".", ".", "/", "intro">>,
           <<"/", ".", ".", "/", ".", ".", "/", "intro">>,
           <<".", "/", "intro">>,
           <<"in", "/", "tro">> }

\* the request bodies of the allocation runs: every compositionId above with
\* every inputProps
AllBodies ==
    { [given |-> FALSE, compositionId |-> <<>>, inputProps |-> p] :
          p \in PropsValues }
    \cup { [given |-> TRUE, compositionId |-> c, inputProps |-> p] :
               c \in PathCompositionIds, p \in PropsValues }

\* How the engine subprocess may end: its exit code (zero, non-zero) and
\* what it has printed on stderr by then: progress text, or text with the
\* marker in it.  (An empty stderr is treated as text without the marker:
\* line 57 skips the test.)
EngineResults ==
    { [exitCode |-> 0, stderr |-> <<"5", "0", "%">>],
      [exitCode |-> 0, stderr |-> <<"e", "r", "r", "o", "r">>],
      [exitCode |-> 0, stderr |-> <<"E", "r", "r", "O", "R", "!">>],
      [exitCode |-> 1, stderr |-> <<"5", "0", "%">>] }


\* --------------------------------------------------------------- the state
\* req[r]   : everything the handler holds for request r (its closure, its
\*            res object, its position) plus a log of what it has done;
\* files    : the file system: the paths that exist, each with the request
\*            whose engine wrote the content;
\* uuidCount: how many identifiers uuidv4 has handed out.
VARIABLES req, files, uuidCount

vars == <<req, files, uuidCount>>

NewRequest ==
    [ pc            |-> "Idle",     \* Idle, Rendering, Delivering, Streaming,
                                    \* CleaningUp, Done, Failed
      body          |-> [given |-> FALSE, compositionId |-> <<>>,
                         inputProps |-> NoProps],
      outputPath    |-> <<>>,
      command       |-> <<>>,       \* the command line given to exec
      execCount     |-> 0,          \* engine subprocesses started
      engineWrote   |-> FALSE,      \* the engine has written its output
      outcome       |-> "None",     \* None, Success, Failure
      exitCode      |-> 0,
      stderr        |-> <<>>,
      headersSent   |-> FALSE,      \* res.headersSent
      responses     |-> <<>>,       \* every response started on res
      stream        |-> "None",     \* None, Streaming, Complete, Aborted
      deliveryErr   |-> "None",     \* None, BeforeHeaders, AfterHeaders
      seenAtCatch   |-> "NA",       \* fs.existsSync in the catch: NA, Yes, No
      unlinkIssued  |-> 0,          \* fs.unlink calls made
      unlinkPending |-> 0,          \* of which not yet carried out
      unlinkResult  |-> "None",     \* None, Ok, Err
      log           |-> <<>> ]      \* the events of the request, in order

Init ==
    /\ req = [r \in Reqs |-> NewRequest]
    /\ files = <<>>
    /\ uuidCount = 0

\* ------------------------------------------------------------- file system
existsSync(p) == p \in DOMAIN files

WriteFile(p, owner) ==
    [q \in (DOMAIN files) \cup {p} |-> IF q = p THEN owner ELSE files[q]]

RemoveFile(p) == [q \in (DOMAIN files) \ {p} |-> files[q]]

\* ---------------------------------------------------------------- responses
Json(status, message, error) ==
    [status |-> status, kind |-> "json", message |-> message,
     error |-> error, content |-> 0]

FileResponse(owner) ==
    [status |-> 200, kind |-> "file", message |-> "attachment",
     error |-> <<>>, content |-> owner]

\* ------------------------------------------------------------ the handler
\* a validation that only rejects an absent compositionId
IsFalsy_UndefinedOnly(body) == ~body.given

\* line 79: if (!compositionId): undefined and "" are both falsy
IsFalsy(body) == ~body.given \/ body.compositionId = <<>>

\* JSON.stringify of an object of string values
RECURSIVE stringifyPairs(_)
stringifyPairs(pairs) ==
    IF pairs = <<>> THEN <<>>
    ELSE <<"\"">> \o pairs[1][1] \o <<"\"", ":", "\"">> \o pairs[1][2] \o <<"\"">>
         \o (IF Len(pairs) > 1 THEN <<",">> ELSE <<>>)
         \o stringifyPairs(Tail(pairs))

\* line 42: JSON.stringify(inputProps || {})
propsString(inputProps) ==
    <<"{">> \o (IF inputProps.given THEN stringifyPairs(inputProps.pairs)
                ELSE <<>>) \o <<"}">>

\* line 44: propsString.replace(/'/g, "'\\''")
RECURSIVE escapeQuotes(_)
escapeQuotes(s) ==
    IF s = <<>> THEN <<>>
    ELSE (IF Head(s) = "'" THEN <<"'", "\\", "'", "'">> ELSE <<Head(s)>>)
         \o escapeQuotes(Tail(s))

escapedPropsString(inputProps) == escapeQuotes(propsString(inputProps))

\* line 48: the command line that exec runs; the props are not part of it
remotionCommand(compositionId, outputPath, inputProps) ==
    <<"npx remotion render \"">> \o remotionEntryPoint \o <<"\" ">>
    \o compositionId \o <<" \"">> \o pathString(outputPath) \o <<"\"">>

\* a classification that takes any text on stderr for a failure
Classify_AnyStderrFails(exitCode, stderr) ==
    IF exitCode # 0 \/ stderr # <<>> THEN "Failure" ELSE "Success"

\* a classification that looks for the marker in lower case only
Classify_CaseSensitive(exitCode, stderr) ==
    IF exitCode # 0 THEN "Failure"
    ELSE IF stderr # <<>> /\ includes(stderr, Marker)
         THEN "Failure"
         ELSE "Success"

\* lines 53-66: what runRemotionRender makes of the finished subprocess.
\* exec rejects on a non-zero exit; on exit zero the stderr text decides.
Classify(exitCode, stderr) ==
    IF exitCode # 0 THEN "Failure"
    ELSE IF stderr # <<>> /\ includes(toLowerCase(stderr), Marker)
         THEN "Failure"
         ELSE "Success"

\* an error that does not carry the stderr text
errorMessage_Generic(exitCode, command, stderr) ==
    IF exitCode # 0 THEN <<"Command failed">>
    ELSE <<"Remotion rendering failed.">>

\* error.message of what runRemotionRender throws: exec's own error for a
\* non-zero exit ("Command failed: <cmd>\n<stderr>"), line 62 otherwise.
errorMessage(exitCode, command, stderr) ==
    IF exitCode # 0
    THEN <<"Command failed: ">> \o command \o <<"\n">> \o stderr
    ELSE <<"Remotion rendering failed. Stderr: ">> \o stderr

\* lines 133-137: the body of the render-failure response
renderFailureResponse(message) == Json(500, "Video rendering failed.", message)

\* a catch that forgets the deletion
unlinkInCatch_Never(exists) == FALSE

\* line 124: the catch deletes the file when it is there
unlinkInCatch(exists) == exists

\* a callback that answers every delivery error
answerDeliveryError_Always(headersSent) == TRUE

\* line 100: the delivery error is answered only while nothing was sent
answerDeliveryError(headersSent) == ~headersSent

\* fs.unlink(outputPath, cb) is issued: the deletion happens later
issueUnlink(q) ==
    [q EXCEPT !.unlinkIssued = @ + 1, !.unlinkPending = @ + 1,
              !.log = Append(@, "unlinkIssued")]

\* lines 76-93: the request arrives with one of the given bodies;
\* validation, allocation, exec started.
\* Requests are numbered in the order they arrive.
ReceiveFrom(r, bodies) ==
    /\ req[r].pc = "Idle"
    /\ IF r = 1 THEN TRUE ELSE req[r - 1].pc # "Idle"
    /\ \E body \in bodies :
         IF IsFalsy(body)
         THEN /\ req' = [req EXCEPT ![r] =
                    [@ EXCEPT !.pc = "Failed", !.body = body,
                              !.headersSent = TRUE,
                              !.responses = Append(@,
                                  Json(400, "compositionId is required.", <<>>)),
                              !.log = Append(@, "rejected")]]
              /\ UNCHANGED <<files, uuidCount>>
         ELSE LET path == outputPathOf(uuidv4(uuidCount + 1), body.compositionId)
              IN /\ req' = [req EXCEPT ![r] =
                       [@ EXCEPT !.pc = "Rendering", !.body = body,
                                 !.outputPath = path,
                                 !.command = remotionCommand(body.compositionId,
                                                             path, body.inputProps),
                                 !.execCount = @ + 1,
                                 !.log = Append(@, "renderStart")]]
                 /\ uuidCount' = uuidCount + 1
                 /\ UNCHANGED files

\* a server that takes up a request only while no render is running
Receive_OneAtATime(r) ==
    /\ \A s \in Reqs : req[s].pc # "Rendering"
    /\ ReceiveFrom(r, Bodies)

\* a request of the interleaved runs arrives
Receive(r) == ReceiveFrom(r, Bodies)

\* a request with any compositionId and any inputProps arrives
ReceiveAny(r) == ReceiveFrom(r, AllBodies)

\* the engine, while it runs, writes (all or part of) its output file
EngineWrite(r) ==
    /\ req[r].pc = "Rendering"
    /\ ~req[r].engineWrote
    /\ files' = WriteFile(req[r].outputPath, r)
    /\ req' = [req EXCEPT ![r].engineWrote = TRUE]
    /\ UNCHANGED uuidCount

\* a handler that deletes the file right after calling res.download,
\* without waiting for its callback
RenderSucceeded_UnlinkAtOnce(r) ==
    /\ req[r].pc = "Rendering"
    /\ \E e \in EngineResults :
         /\ e.exitCode = 0 /\ ~includes(toLowerCase(e.stderr), Marker)
         /\ req' = [req EXCEPT ![r] =
                issueUnlink([@ EXCEPT !.pc = "Delivering", !.outcome = "Success",
                                      !.exitCode = e.exitCode, !.stderr = e.stderr,
                                      !.log = @ \o <<"renderDone", "deliveryStart">>])]
    /\ UNCHANGED <<files, uuidCount>>

\* lines 65-66, 96: the render counts as a success; res.download is called
RenderSucceeded(r) ==
    /\ req[r].pc = "Rendering"
    /\ \E e \in EngineResults :
         /\ Classify(e.exitCode, e.stderr) = "Success"
         /\ req' = [req EXCEPT ![r] =
                [@ EXCEPT !.pc = "Delivering", !.outcome = "Success",
                          !.exitCode = e.exitCode, !.stderr = e.stderr,
                          !.log = @ \o <<"renderDone", "deliveryStart">>]]
    /\ UNCHANGED <<files, uuidCount>>

\* a catch that runs the engine a second time after the first failure
CatchRenderFailure_RetryOnce(q, code, text) ==
    IF q.execCount < 2
    THEN [q EXCEPT !.execCount = @ + 1, !.log = Append(@, "renderStart")]
    ELSE [q EXCEPT !.pc = "Failed", !.outcome = "Failure",
                   !.exitCode = code, !.stderr = text,
                   !.headersSent = TRUE,
                   !.responses = Append(@, renderFailureResponse(
                       errorMessage(code, q.command, text))),
                   !.log = @ \o <<"renderDone", "responded">>]

\* a handler that goes on to res.download after a failed render
CatchRenderFailure_StillDelivers(q, code, text) ==
    [q EXCEPT !.pc = "Delivering", !.outcome = "Failure",
              !.exitCode = code, !.stderr = text,
              !.log = @ \o <<"renderDone", "deliveryStart">>]

\* a catch that cleans up and sends nothing
CatchRenderFailure_NoAnswer(q, code, text) ==
    LET seen == existsSync(q.outputPath)
        q1 == [q EXCEPT !.pc = "CleaningUp", !.outcome = "Failure",
                        !.exitCode = code, !.stderr = text,
                        !.seenAtCatch = IF seen THEN "Yes" ELSE "No",
                        !.log = Append(@, "renderDone")]
        q2 == IF seen THEN issueUnlink(q1) ELSE q1
    IN [q2 EXCEPT !.pc = IF q2.unlinkPending > 0 THEN "CleaningUp" ELSE "Failed"]

\* lines 67-72, 121-138: the render failed; the catch of the handler
CatchRenderFailure(q, code, text) ==
    LET seen == existsSync(q.outputPath)
        q1 == [q EXCEPT !.pc = "CleaningUp", !.outcome = "Failure",
                        !.exitCode = code, !.stderr = text,
                        !.seenAtCatch = IF seen THEN "Yes" ELSE "No",
                        !.log = Append(@, "renderDone")]
        q2 == IF unlinkInCatch(seen) THEN issueUnlink(q1) ELSE q1
        q3 == IF ~q2.headersSent
              THEN [q2 EXCEPT !.headersSent = TRUE,
                              !.responses = Append(@, renderFailureResponse(
                                  errorMessage(code, q.command, text))),
                              !.log = Append(@, "responded")]
              ELSE q2
    IN [q3 EXCEPT !.pc = IF q3.unlinkPending > 0 THEN "CleaningUp" ELSE "Failed"]

RenderFailed(r) ==
    /\ req[r].pc = "Rendering"
    /\ \E e \in EngineResults :
         /\ Classify(e.exitCode, e.stderr) = "Failure"
         /\ req' = [req EXCEPT ![r] =
                CatchRenderFailure(req[r], e.exitCode, e.stderr)]
    /\ UNCHANGED <<files, uuidCount>>

\* res.download finds the file and starts sending it: headers go out
SendFileStart(r) ==
    /\ req[r].pc = "Delivering"
    /\ existsSync(req[r].outputPath)
    /\ req' = [req EXCEPT ![r] =
           [@ EXCEPT !.pc = "Streaming", !.headersSent = TRUE,
                     !.stream = "Streaming",
                     !.responses = Append(@, FileResponse(files[req[r].outputPath]))]]
    /\ UNCHANGED <<files, uuidCount>>

\* a callback that deletes the file only after a transfer without error
DownloadCallback_UnlinkOnSuccessOnly(q, err) ==
    LET q1 == [q EXCEPT !.pc = "CleaningUp",
                        !.stream = IF q.stream = "Streaming"
                                   THEN (IF err THEN "Aborted" ELSE "Complete")
                                   ELSE @,
                        !.deliveryErr = IF ~err THEN "None"
                                        ELSE IF q.headersSent THEN "AfterHeaders"
                                        ELSE "BeforeHeaders",
                        !.log = Append(@, "deliveryEnd")]
    IN IF err
       THEN (IF ~q1.headersSent
             THEN [q1 EXCEPT !.headersSent = TRUE,
                             !.responses = Append(@,
                                 Json(500, "Error sending the rendered file.", <<>>)),
                             !.log = Append(@, "responded")]
             ELSE q1)
       ELSE issueUnlink(q1)

\* lines 96-120: the callback of res.download, with or without an error
DownloadCallback(q, err) ==
    LET q1 == [q EXCEPT !.pc = "CleaningUp",
                        !.stream = IF q.stream = "Streaming"
                                   THEN (IF err THEN "Aborted" ELSE "Complete")
                                   ELSE @,
                        !.deliveryErr = IF ~err THEN "None"
                                        ELSE IF q.headersSent THEN "AfterHeaders"
                                        ELSE "BeforeHeaders",
                        !.log = Append(@, "deliveryEnd")]
        q2 == IF err /\ answerDeliveryError(q1.headersSent)
              THEN [q1 EXCEPT !.headersSent = TRUE,
                              !.responses = Append(@,
                                  Json(500, "Error sending the rendered file.", <<>>)),
                              !.log = Append(@, "responded")]
              ELSE q1
    IN issueUnlink(q2)

\* the file was sent to the end
DownloadDone(r) ==
    /\ req[r].pc = "Streaming"
    /\ req' = [req EXCEPT ![r] = DownloadCallback(req[r], FALSE)]
    /\ UNCHANGED <<files, uuidCount>>

\* the transfer failed: the file is not there, or the client went away
\* (before anything was sent, or in the middle of the transfer)
DownloadFailed(r) ==
    /\ req[r].pc \in {"Delivering", "Streaming"}
    /\ req' = [req EXCEPT ![r] = DownloadCallback(req[r], TRUE)]
    /\ UNCHANGED <<files, uuidCount>>

\* an unlink callback that answers the caller when the deletion failed
UnlinkComplete_AnswersError(r) ==
    /\ req[r].unlinkPending > 0
    /\ \E ok \in BOOLEAN :
         LET removed == ok /\ existsSync(req[r].outputPath)
             q == req[r]
             left == q.unlinkPending - 1
         IN /\ files' = IF removed THEN RemoveFile(q.outputPath) ELSE files
            /\ req' = [req EXCEPT ![r] =
                   [@ EXCEPT !.unlinkPending = left,
                             !.unlinkResult = IF removed THEN "Ok" ELSE "Err",
                             !.responses = IF removed THEN @
                                           ELSE Append(@, Json(500,
                                               "Error deleting temporary file.", <<>>)),
                             !.log = Append(@, IF removed THEN "unlinked"
                                               ELSE "unlinkFailed"),
                             !.pc = IF q.pc = "CleaningUp" /\ left = 0
                                    THEN (IF q.outcome = "Success"
                                             /\ q.deliveryErr = "None"
                                          THEN "Done" ELSE "Failed")
                                    ELSE @]]
    /\ UNCHANGED uuidCount

\* a pending fs.unlink is carried out and its callback logs the result
\* (lines 109-118, 125-131): the file is removed, or the deletion fails
\* (always when there is no such file) and the file, if any, stays.
UnlinkComplete(r) ==
    /\ req[r].unlinkPending > 0
    /\ \E ok \in BOOLEAN :
         LET removed == ok /\ existsSync(req[r].outputPath)
             q == req[r]
             left == q.unlinkPending - 1
         IN /\ files' = IF removed THEN RemoveFile(q.outputPath) ELSE files
            /\ req' = [req EXCEPT ![r] =
                   [@ EXCEPT !.unlinkPending = left,
                             !.unlinkResult = IF removed THEN "Ok" ELSE "Err",
                             !.log = Append(@, IF removed THEN "unlinked"
                                               ELSE "unlinkFailed"),
                             !.pc = IF q.pc = "CleaningUp" /\ left = 0
                                    THEN (IF q.outcome = "Success"
                                             /\ q.deliveryErr = "None"
                                          THEN "Done" ELSE "Failed")
                                    ELSE @]]
    /\ UNCHANGED uuidCount

Next ==
    \E r \in Reqs :
        \/ Receive(r)
        \/ EngineWrite(r)
        \/ RenderSucceeded(r)
        \/ RenderFailed(r)
        \/ SendFileStart(r)
        \/ DownloadDone(r)
        \/ DownloadFailed(r)
        \/ UnlinkComplete(r)

Spec == Init /\ [][Next]_vars

\* The allocation runs: requests arrive with any body and are taken up to
\* the start of the engine (lines 76-93, 41-55).
AllocNext == \E r \in Reqs : ReceiveAny(r)

AllocSpec == Init /\ [][AllocNext]_vars

\* The runs in which every fs.unlink that was issued is carried out and calls
\* back (lines 109-118, 125-131): the deletion is done by the runtime itself
\* and always ends, with or without an error.  Nothing is assumed of the
\* engine subprocess (line 55) or of the transfer to the client (line 96),
\* which may never end.
FairSpec == Spec /\ \A r \in Reqs : WF_vars(UnlinkComplete(r))


\* ------------------------------------------------------- what is claimed
Started(r) == req[r].execCount > 0
Terminal(r) == req[r].pc \in {"Done", "Failed"}
Missing(body) == ~body.given
Empty(body) == body.given /\ Len(body.compositionId) = 0

\* the file that the engine of request r wrote is still at its internalPath
OwnFilePresent(r) ==
    /\ existsSync(req[r].outputPath)
    /\ files[req[r].outputPath] = r

\* C1 as stated: once a request that reached Rendering has fully completed,
\* there is no file at its internalPath (on the success, the render-failure
\* and the delivery-failure path alike).
C1_NoFileAfterCompletion ==
    \A r \in Reqs :
        Started(r) /\ Terminal(r) => ~existsSync(req[r].outputPath)

\* C1 as amended: once a request that reached Rendering has fully completed,
\* the file its engine wrote is no longer at its internalPath, unless the
\* deletion the request attempted failed (which is only logged).
C1_NoLeakUnlessUnlinkFailed ==
    \A r \in Reqs :
        Started(r) /\ Terminal(r) =>
            ~OwnFilePresent(r) \/ req[r].unlinkResult = "Err"

\* a request delivered and cleaned up, another failed to render and had its
\* partial file removed
C1_Witness ==
    \E r, s \in Reqs :
        /\ req[r].pc = "Done" /\ req[r].engineWrote
        /\ req[r].unlinkResult = "Ok" /\ ~existsSync(req[r].outputPath)
        /\ req[s].pc = "Failed" /\ req[s].outcome = "Failure"
        /\ req[s].seenAtCatch = "Yes" /\ req[s].unlinkResult = "Ok"
        /\ ~existsSync(req[s].outputPath)

\* C2: a request whose compositionId is missing or empty is answered 400
\* and nothing else, the engine is never started for it and no file is
\* written for it.
C2_FalsyIdRejected ==
    \A r \in Reqs :
        req[r].pc # "Idle" /\ (Missing(req[r].body) \/ Empty(req[r].body)) =>
            /\ Len(req[r].responses) = 1
            /\ req[r].responses[1].status = 400
            /\ req[r].responses[1].kind = "json"
            /\ req[r].execCount = 0
            /\ ~req[r].engineWrote
            /\ \A p \in DOMAIN files : files[p] # r

\* a request with an empty compositionId and one without any were rejected
C2_Witness ==
    \E r, s \in Reqs :
        /\ Empty(req[r].body) /\ req[r].pc = "Failed"
        /\ Missing(req[s].body) /\ req[s].pc = "Failed"
        /\ req[r].responses[1].status = 400

\* where event e first stands in the log, 0 when it does not
Pos(log, e) ==
    IF \E i \in 1..Len(log) : log[i] = e
    THEN CHOOSE i \in 1..Len(log) :
             log[i] = e /\ \A j \in 1..(i - 1) : log[j] # e
    ELSE 0

Rank(pc) ==
    CASE pc = "Idle" -> 0
      [] pc = "Rendering" -> 1
      [] pc = "Delivering" -> 2
      [] pc = "Streaming" -> 3
      [] pc = "CleaningUp" -> 4
      [] OTHER -> 5

\* the events of one request are in order: the render has completed before
\* the delivery starts, and a deletion is issued only after the render has
\* completed and, when a delivery was started, after that delivery has ended
LogOrdered(log) ==
    /\ Pos(log, "deliveryStart") > 0 =>
           /\ Pos(log, "renderDone") > 0
           /\ Pos(log, "renderDone") < Pos(log, "deliveryStart")
    /\ Pos(log, "deliveryEnd") > 0 =>
           /\ Pos(log, "deliveryStart") > 0
           /\ Pos(log, "deliveryStart") < Pos(log, "deliveryEnd")
    /\ Pos(log, "unlinkIssued") > 0 =>
           /\ Pos(log, "renderDone") > 0
           /\ Pos(log, "renderDone") < Pos(log, "unlinkIssued")
           /\ Pos(log, "deliveryStart") > 0 =>
                  /\ Pos(log, "deliveryEnd") > 0
                  /\ Pos(log, "deliveryEnd") < Pos(log, "unlinkIssued")

\* C3: within one request the render completes before the delivery starts,
\* the delivery ends (with or without an error) before the deletion of
\* internalPath is issued, and no request goes back to an earlier stage.
C3_StrictlyOrdered ==
    /\ [](\A r \in Reqs : LogOrdered(req[r].log))
    /\ [][\A r \in Reqs : Rank(req'[r].pc) >= Rank(req[r].pc)]_vars

\* a request went through render, delivery and deletion
C3_Witness ==
    \E r \in Reqs :
        /\ req[r].pc = "Done"
        /\ Pos(req[r].log, "renderDone") > 0
        /\ Pos(req[r].log, "deliveryStart") > Pos(req[r].log, "renderDone")
        /\ Pos(req[r].log, "deliveryEnd") > Pos(req[r].log, "deliveryStart")
        /\ Pos(req[r].log, "unlinkIssued") > Pos(req[r].log, "deliveryEnd")

\* C4: two requests with the same compositionId have distinct internalPaths,
\* and what a request delivers is the file written for it, not one written
\* for another request.
C4_PathsDistinct ==
    \A r, s \in Reqs :
        /\ (r # s /\ Started(r) /\ Started(s)
              /\ req[r].body.compositionId = req[s].body.compositionId)
           => req[r].outputPath # req[s].outputPath
        /\ \A i \in 1..Len(req[r].responses) :
               req[r].responses[i].kind = "file" =>
                   req[r].responses[i].content = r

\* the one response of request r is a 500 whose error carries the stderr
\* text of the engine
Answered500WithStderr(r) ==
    /\ Len(req[r].responses) = 1
    /\ req[r].responses[1].status = 500
    /\ req[r].responses[1].kind = "json"
    /\ req[r].responses[1].message = "Video rendering failed."
    /\ includes(req[r].responses[1].error, req[r].stderr)

NonZeroExit(r) == req[r].outcome # "None" /\ req[r].exitCode # 0

\* C5 as stated: after a non-zero exit the caller gets a 500 carrying the
\* diagnostic text, and once the request has completed no file is left at
\* internalPath.
C5_NonZeroExitNoFileLeft ==
    \A r \in Reqs :
        NonZeroExit(r) =>
            /\ Answered500WithStderr(r)
            /\ Terminal(r) => ~existsSync(req[r].outputPath)

\* C5 as amended: after a non-zero exit the caller gets a 500 carrying the
\* diagnostic text; a partial file found at internalPath has its deletion
\* issued, and once the request has completed the file its engine wrote is
\* gone unless that deletion failed.
C5_NonZeroExitAnsweredAndCleaned ==
    \A r \in Reqs :
        NonZeroExit(r) =>
            /\ req[r].outcome = "Failure"
            /\ Answered500WithStderr(r)
            /\ req[r].seenAtCatch = "Yes" => req[r].unlinkIssued = 1
            /\ Terminal(r) => ~OwnFilePresent(r) \/ req[r].unlinkResult = "Err"

\* a non-zero exit with text on stderr and a partial file, answered and
\* cleaned up
C5_Witness ==
    \E r \in Reqs :
        /\ NonZeroExit(r) /\ Len(req[r].stderr) > 0
        /\ req[r].seenAtCatch = "Yes" /\ req[r].pc = "Failed"
        /\ req[r].unlinkResult = "Ok" /\ ~existsSync(req[r].outputPath)
        /\ Answered500WithStderr(r)

\* exit code zero with the marker, in any letter case, on stderr
ZeroExitWithMarker(r) ==
    /\ req[r].outcome # "None" /\ req[r].exitCode = 0
    /\ \E i \in 1..Len(req[r].stderr) :
           /\ i + 4 <= Len(req[r].stderr)
           /\ Lower(req[r].stderr[i]) = "e"
           /\ Lower(req[r].stderr[i + 1]) = "r"
           /\ Lower(req[r].stderr[i + 2]) = "r"
           /\ Lower(req[r].stderr[i + 3]) = "o"
           /\ Lower(req[r].stderr[i + 4]) = "r"

NothingDelivered(r) ==
    /\ Pos(req[r].log, "deliveryStart") = 0
    /\ \A i \in 1..Len(req[r].responses) : req[r].responses[i].kind # "file"

\* C6 as stated: exit zero with the marker on stderr is a RenderFailure: a
\* 500 carrying the text, nothing delivered, and the output file removed.
C6_MarkerFailsNoFileLeft ==
    \A r \in Reqs :
        ZeroExitWithMarker(r) =>
            /\ req[r].outcome = "Failure"
            /\ Answered500WithStderr(r)
            /\ NothingDelivered(r)
            /\ Terminal(r) => ~existsSync(req[r].outputPath)

\* C6 as amended: exit zero with the marker on stderr is a RenderFailure: a
\* 500 carrying the text, nothing delivered, the deletion of an output file
\* found at internalPath issued, and once the request has completed the file
\* its engine wrote is gone unless that deletion failed.
C6_MarkerFailsAndCleaned ==
    \A r \in Reqs :
        ZeroExitWithMarker(r) =>
            /\ req[r].outcome = "Failure"
            /\ Answered500WithStderr(r)
            /\ NothingDelivered(r)
            /\ req[r].seenAtCatch = "Yes" => req[r].unlinkIssued = 1
            /\ Terminal(r) => ~OwnFilePresent(r) \/ req[r].unlinkResult = "Err"

\* exit zero with the marker in mixed case, the file written: failed,
\* answered, file removed
C6_Witness ==
    \E r \in Reqs :
        /\ ZeroExitWithMarker(r) /\ req[r].stderr # Marker
        /\ req[r].outcome = "Failure" /\ req[r].engineWrote
        /\ req[r].pc = "Failed" /\ req[r].unlinkResult = "Ok"
        /\ ~existsSync(req[r].outputPath)

\* C7: a request that reached Rendering issues exactly one deletion of its
\* internalPath once the render is over: after a delivery, failed or not,
\* always; after a render failure when the file exists (and none when it
\* does not).  No request issues more than one.
C7_CleanupExactlyOnce ==
    \A r \in Reqs :
        /\ req[r].unlinkIssued <= 1
        /\ ~Started(r) => req[r].unlinkIssued = 0
        /\ (Started(r) /\ req[r].pc \in {"CleaningUp", "Done", "Failed"}) =>
               IF req[r].outcome = "Failure"
               THEN (req[r].unlinkIssued = 1) <=> (req[r].seenAtCatch = "Yes")
               ELSE req[r].unlinkIssued = 1

\* a failed delivery and a failed render, each with its one deletion
C7_Witness ==
    \E r, s \in Reqs :
        /\ req[r].deliveryErr # "None" /\ req[r].unlinkIssued = 1
        /\ req[r].pc = "Failed"
        /\ req[s].outcome = "Failure" /\ req[s].seenAtCatch = "Yes"
        /\ req[s].unlinkIssued = 1 /\ req[s].pc = "Failed"

\* the response of request r has been sent to its end
ResponseComplete(r) ==
    /\ Len(req[r].responses) > 0
    /\ \/ req[r].responses[Len(req[r].responses)].kind = "json"
       \/ req[r].stream = "Complete"

\* C8 as stated: when the response of a request that reached Rendering is
\* complete, there is no file at its internalPath.
C8_GoneWhenResponseCompletes ==
    \A r \in Reqs :
        Started(r) /\ ResponseComplete(r) => ~existsSync(req[r].outputPath)

\* C8 as amended: a request removes the file at its internalPath only by
\* carrying out a deletion it has issued, and after a successful render it
\* issues that deletion only when the delivery has ended: on the success
\* path the request never removes its file before the artifact response is
\* over, so the file can still be there right after the response completes.
C8_RemovedOnlyAfterDelivery ==
    [][\A r \in Reqs :
          (/\ req'[r] # req[r]
           /\ existsSync(req[r].outputPath)
           /\ req[r].outputPath \notin DOMAIN files')
          => /\ req[r].unlinkPending > 0
             /\ req'[r].unlinkPending = req[r].unlinkPending - 1
             /\ req[r].outcome = "Success" =>
                    /\ req[r].stream # "Streaming"
                    /\ Pos(req[r].log, "deliveryEnd") > 0]_vars

\* the artifact has been sent to its end and the file is still there, its
\* deletion pending
C8_Witness ==
    \E r \in Reqs :
        /\ req[r].stream = "Complete" /\ ResponseComplete(r)
        /\ req[r].unlinkPending = 1
        /\ OwnFilePresent(r)

\* C9: when a render is classified Success and the delivery starts, there is
\* a file at internalPath.
C9_FileExistsAtDelivery ==
    \A r \in Reqs :
        req[r].pc = "Delivering" => existsSync(req[r].outputPath)

\* C10: a failed delivery is answered with a 500 exactly when nothing was
\* committed before; when the artifact response was already committed no
\* second response is sent; either way one deletion is issued.
C10_DeliveryFailure ==
    \A r \in Reqs :
        req[r].deliveryErr # "None" =>
            /\ req[r].unlinkIssued = 1
            /\ Len(req[r].responses) = 1
            /\ req[r].deliveryErr = "BeforeHeaders" =>
                   /\ req[r].responses[1].status = 500
                   /\ req[r].responses[1].kind = "json"
            /\ req[r].deliveryErr = "AfterHeaders" =>
                   /\ req[r].responses[1].kind = "file"
                   /\ req[r].stream = "Aborted"

\* one delivery failed before anything was sent, another in the middle of
\* the transfer
C10_Witness ==
    \E r, s \in Reqs :
        /\ req[r].deliveryErr = "BeforeHeaders"
        /\ req[r].responses[1].status = 500
        /\ req[s].deliveryErr = "AfterHeaders"
        /\ req[s].unlinkIssued = 1

\* C11: carrying out a deletion, whether it succeeds or fails, leaves what
\* was answered to the caller as it was: no response is added or changed,
\* and the transfer state stays what it was.
C11_UnlinkLeavesResponse ==
    [][\A r \in Reqs :
          req'[r].unlinkPending < req[r].unlinkPending =>
              /\ req'[r].responses = req[r].responses
              /\ req'[r].headersSent = req[r].headersSent
              /\ req'[r].stream = req[r].stream
              /\ req'[r].deliveryErr = req[r].deliveryErr
              /\ req'[r].outcome = req[r].outcome]_vars

\* a deletion failed with the file still there, after the artifact had been
\* sent to its end; another failed after a render failure was answered
C11_Witness ==
    \E r, s \in Reqs :
        /\ req[r].unlinkResult = "Err" /\ OwnFilePresent(r)
        /\ req[r].stream = "Complete" /\ Len(req[r].responses) = 1
        /\ req[r].responses[1].kind = "file"
        /\ req[s].unlinkResult = "Err" /\ OwnFilePresent(s)
        /\ req[s].outcome = "Failure" /\ Len(req[s].responses) = 1
        /\ req[s].responses[1].status = 500

\* s with the first occurrence of sub taken out
Without(s, sub) ==
    IF includes(s, sub) /\ Len(sub) > 0
    THEN LET i == CHOOSE k \in 1..Len(s) :
                      /\ k + Len(sub) - 1 <= Len(s)
                      /\ SubSeq(s, k, k + Len(sub) - 1) = sub
                      /\ \A j \in 1..(k - 1) :
                             SubSeq(s, j, j + Len(sub) - 1) # sub
         IN SubSeq(s, 1, i - 1) \o SubSeq(s, i + Len(sub), Len(s))
    ELSE s

\* C12: the command that is executed carries the entry point, the
\* compositionId, the output path and the inputProps of the request (their
\* keys and values), so two requests that differ only in inputProps run
\* commands that differ in more than the output path.
C12_CommandCarriesProps ==
    \A r, s \in Reqs :
        /\ Started(r) =>
               /\ includes(req[r].command, remotionEntryPoint)
               /\ includes(req[r].command, req[r].body.compositionId)
               /\ includes(req[r].command, pathString(req[r].outputPath))
               /\ includes(req[r].command,
                           escapedPropsString(req[r].body.inputProps))
        /\ (/\ Started(r) /\ Started(s)
            /\ req[r].body.compositionId = req[s].body.compositionId
            /\ propsString(req[r].body.inputProps)
                   # propsString(req[s].body.inputProps))
           => Without(req[r].command, pathString(req[r].outputPath))
                  # Without(req[s].command, pathString(req[s].outputPath))

\* p is prefix of the path q
IsPrefix(p, q) == Len(p) <= Len(q) /\ SubSeq(q, 1, Len(p)) = p

\* C13: the internalPath of every accepted request lies inside the output
\* directory and still contains the unique token of the request.
C13_PathInsideWithToken ==
    \A r \in Reqs :
        Started(r) =>
            /\ IsPrefix(outputDir, req[r].outputPath)
            /\ Len(req[r].outputPath) > Len(outputDir)
            /\ \E n \in 1..Len(uuidNames) :
                   /\ includes(req[r].command, uuidv4(n))
                   /\ includes(pathString(req[r].outputPath), uuidv4(n))

\* the request has arrived and passed validation
Validated(r) == req[r].pc # "Idle" /\ ~IsFalsy(req[r].body)

\* C14: the engine has been started exactly once for every request that
\* passed validation, whatever became of the render, the delivery and the
\* cleanup, and never for a request that was rejected or has not arrived.
C14_InvokedExactlyOnce ==
    \A r \in Reqs :
        req[r].execCount = IF Validated(r) THEN 1 ELSE 0

\* a failed render whose deletion failed and a failed delivery, both over,
\* each with its one invocation
C14_Witness ==
    \E r, s \in Reqs :
        /\ req[r].outcome = "Failure" /\ req[r].unlinkResult = "Err"
        /\ req[r].pc = "Failed" /\ req[r].execCount = 1
        /\ req[s].deliveryErr # "None" /\ req[s].pc = "Failed"
        /\ req[s].execCount = 1

\* r is the request that arrives next
NextToArrive(r) ==
    /\ req[r].pc = "Idle"
    /\ \A s \in Reqs : s < r => req[s].pc # "Idle"

\* C15: nothing serializes renders.  The next request can be taken up (and,
\* when valid, start its render) whatever the other requests are doing, and a
\* render in progress can end, as a success or as a failure, whatever the
\* other requests are doing: no request waits for another.
C15_NoRequestWaits ==
    \A r \in Reqs :
        /\ NextToArrive(r) => ENABLED Receive(r)
        /\ req[r].pc = "Rendering" =>
               /\ ENABLED RenderSucceeded(r)
               /\ ENABLED RenderFailed(r)

\* two renders in progress at once
C15_Witness ==
    \E r, s \in Reqs :
        /\ r # s
        /\ req[r].pc = "Rendering" /\ req[s].pc = "Rendering"
        /\ req[r].execCount = 1 /\ req[s].execCount = 1

\* the engine of r exited with code zero and wrote text without the marker
\* on stderr
ZeroExitWithPlainText(r) ==
    /\ req[r].outcome # "None" /\ req[r].exitCode = 0
    /\ Len(req[r].stderr) > 0
    /\ ~ZeroExitWithMarker(r)

\* C16: exit code zero with text on stderr that does not contain the marker
\* is a Success, and the request goes on to the delivery: no error response
\* for the render, res.download called.
C16_PlainStderrIsSuccess ==
    \A r \in Reqs :
        ZeroExitWithPlainText(r) =>
            /\ req[r].outcome = "Success"
            /\ Pos(req[r].log, "deliveryStart") = Pos(req[r].log, "renderDone") + 1
            /\ req[r].seenAtCatch = "NA"
            /\ \A i \in 1..Len(req[r].responses) :
                   req[r].responses[i].message # "Video rendering failed."

\* a render that wrote progress text on stderr, exited zero, and whose
\* artifact was sent to the end
C16_Witness ==
    \E r \in Reqs :
        /\ ZeroExitWithPlainText(r)
        /\ req[r].stderr = <<"5", "0", "%">>
        /\ req[r].stream = "Complete"
        /\ req[r].responses[1].kind = "file"

\* C17: a validated request has no response of any kind, and nothing
\* committed, until its render subprocess has completed; after a render
\* classified Failure, res.download is never called and no artifact bytes are
\* sent.
C17_NoResponseBeforeRenderEnds ==
    \A r \in Reqs :
        Validated(r) =>
            /\ req[r].outcome = "None" =>
                   /\ req[r].pc = "Rendering"
                   /\ req[r].responses = <<>>
                   /\ ~req[r].headersSent
                   /\ req[r].stream = "None"
            /\ req[r].responses # <<>> => Pos(req[r].log, "renderDone") > 0
            /\ req[r].outcome = "Failure" =>
                   /\ NothingDelivered(r)
                   /\ req[r].stream = "None"
                   /\ req[r].deliveryErr = "None"

\* a failed render that left a file behind and was answered without any
\* delivery, next to a request still rendering with nothing answered
C17_Witness ==
    \E r, s \in Reqs :
        /\ req[r].outcome = "Failure" /\ req[r].seenAtCatch = "Yes"
        /\ Terminal(r) /\ Len(req[r].responses) = 1
        /\ req[r].responses[1].kind = "json"
        /\ req[s].pc = "Rendering" /\ req[s].engineWrote
        /\ req[s].responses = <<>>

\* C18: no request ever has more than one response, and a response is sent
\* only while nothing has been committed for the request: the first thing
\* sent commits it, so the validation error, the render-failure error, the
\* artifact and the delivery-failure error exclude one another.
C18_AtMostOneResponse ==
    [][\A r \in Reqs :
          /\ Len(req'[r].responses) <= 1
          /\ req'[r].responses # req[r].responses =>
                 /\ req[r].responses = <<>>
                 /\ ~req[r].headersSent
                 /\ req'[r].headersSent
          /\ req[r].headersSent => req'[r].headersSent]_vars

\* a transfer broken off after the artifact response was committed, over and
\* with that one response; a rejected request with its one 400
C18_Witness ==
    \E r, s \in Reqs :
        /\ req[r].deliveryErr = "AfterHeaders" /\ Terminal(r)
        /\ Len(req[r].responses) = 1 /\ req[r].responses[1].kind = "file"
        /\ ~Validated(s) /\ Terminal(s)
        /\ Len(req[s].responses) = 1 /\ req[s].responses[1].status = 400

\* the render subprocess of r, once started, terminates
SubprocessTerminates(r) ==
    (req[r].pc = "Rendering") ~> (req[r].pc # "Rendering")

\* the completion callback of the delivery of r, once started, fires
DeliveryCallbackFires(r) ==
    (req[r].pc \in {"Delivering", "Streaming"})
        ~> (req[r].pc \notin {"Delivering", "Streaming"})

\* a response has been sent for r, or its artifact response has ended
ResponseDecided(r) == Len(req[r].responses) = 1 /\ req[r].headersSent

\* C19: a request that has arrived ends in Done or Failed with its response
\* decided, provided its render subprocess terminates and the completion
\* callback of its delivery fires.  Nothing else ends a render: a validated
\* request is found outside Rendering only with its subprocess completed, and
\* as long as it is in Rendering it has answered nothing and issued no
\* deletion.
C19_EventuallyTerminal ==
    \A r \in Reqs :
        /\ (SubprocessTerminates(r) /\ DeliveryCallbackFires(r)) =>
               ((req[r].pc # "Idle") ~> (Terminal(r) /\ ResponseDecided(r)))
        /\ [](req[r].pc = "Rendering" =>
                  /\ req[r].outcome = "None"
                  /\ req[r].responses = <<>> /\ ~req[r].headersSent
                  /\ req[r].unlinkIssued = 0)
        /\ [](Validated(r) /\ req[r].pc # "Rendering" =>
                  /\ req[r].outcome # "None"
                  /\ Pos(req[r].log, "renderDone") > 0)

\* one request delivered and cleaned up, another failed in its render and
\* answered, both over
C19_Witness ==
    \E r, s \in Reqs :
        /\ req[r].pc = "Done" /\ ResponseDecided(r)
        /\ req[r].responses[1].kind = "file" /\ req[r].unlinkPending = 0
        /\ req[s].pc = "Failed" /\ req[s].outcome = "Failure"
        /\ ResponseDecided(s) /\ req[s].unlinkPending = 0

=============================================================================
